---- MODULE Spec2Model ----
(***************************************************************************)
(* caligian/argparser: the command-line token interpreter.                 *)
(*                                                                         *)
(* The repository holds two Go revisions of the same parser, both          *)
(* `package main`, and an Erlang one:                                      *)
(*   - src/unnamed/part_000 : NewParser / Switch / Positional / find /     *)
(*     extract / process_switches / process_positional                     *)
(*   - src/parser.go        : New / Keyword / Argument / Find / Extract /  *)
(*     Validate                                                            *)
(*   - src/src/argparser.erl: get_index / extract_args / check_nargs /     *)
(*     extract_positional, pure functions run by test/0                    *)
(* One behaviour of this module is one process running one of the Go       *)
(* revisions: the driver constructs a parser over a token stream, declares *)
(* switches and positionals, and calls Parse.  The package-level variables *)
(* of each revision are the state.  A Go panic ends the process: pc goes   *)
(* to "failed" and err holds the error kind.  Or it is one evaluation of   *)
(* test/0 of the Erlang revision on the stream and the switches.           *)
(*                                                                         *)
(* Go slices are modelled with their backing array: mem holds the argv     *)
(* arrays of the process, the newest first, each followed by a cell that   *)
(* marks its end; a slice is either a view (off, len) of mem or owns its   *)
(* values, and append writes into mem when the view's capacity (the rest   *)
(* of its array) allows it, as Go does.                                    *)
(***************************************************************************)
EXTENDS Integers, Sequences, FiniteSets, TLC

\* ------------------------------------------------------------------ bounds
\* Longest token stream the driver passes to the constructor.
MaxLen == 4
\* Longest token stream of a process that parses two streams.
MaxLen2 == 2

\* ------------------------------------------------------------ error kinds
NoErr == "none"
\* index out of range / slice bounds out of range: a Go runtime panic, none of
\* the package's error values
RuntimePanic == "RuntimePanic"
ErrMissingName == "MissingName"
ErrNoArgs == "NoArgs"
ErrExcessArgs == "ExcessArgs"
ErrLessArgs == "LessArgs"
ErrLessPositionalArgs == "LessPositionalArgs"
ErrDuplicate == "Duplicate"
ErrInvalidNargs == "InvalidNargs"
ErrAssertionFailure == "AssertionFailure"
ErrInvalidChoice == "InvalidChoice"
ErrMissingDeps == "MissingDeps"
ErrUnallowedDeps == "UnallowedDeps"
ErrNameConflict == "NameConflict"

\* ------------------------------------------------------------------ inputs
\* The tokens of the streams explored: the short form of switch a (declared
\* as a / aa), the long form of switch bb (declared with no short form), two
\* plain tokens and the terminator.
Tokens == {"-a", "--bb", "x", "y", "--"}

RECURSIVE SeqsUpTo(_, _)
SeqsUpTo(S, n) ==
    IF n = 0 THEN {<<>>}
    ELSE LET shorter == SeqsUpTo(S, n - 1)
         IN  shorter \cup {Append(s, t) : s \in {q \in shorter : Len(q) = n - 1}, t \in S}

Streams == SeqsUpTo(Tokens, MaxLen)

\* The streams of a process that parses twice.
Tokens2 == {"-a", "x", "--"}
Streams2 == SeqsUpTo(Tokens2, MaxLen2)

\* ------------------------------------------------------------ Go slices
\* A slice header.  view: it points into the argv backing array mem at
\* 0-based offset off; otherwise it owns val.  A nil slice and an empty one
\* are both Own(<<>>): the code below never tells them apart.
View(off, len) == [view |-> TRUE, off |-> off, len |-> len, val |-> <<>>]
Own(v) == [view |-> FALSE, off |-> 0, len |-> Len(v), val |-> v]

\* the cell that follows each array in memory; no slice covers it
ArrayEnd == "<end of array>"
\* the number of cells from the start of memory to the end of the array that
\* holds 0-based offset off
CapEnd(m, off) ==
    LET ends == {i \in (off + 1)..Len(m) : m[i] = ArrayEnd}
    IN  IF ends = {} THEN Len(m)
        ELSE (CHOOSE i \in ends : \A j \in ends : i <= j) - 1
\* a new array for argv, in front of the arrays memory m holds
Alloc(m, argv) == argv \o <<ArrayEnd>> \o m
\* slice s once n cells have been put in front of memory
Rebase(s, n) == IF s.view THEN [s EXCEPT !.off = @ + n] ELSE s

\* the values a slice holds, read through memory m
Val(m, s) == IF s.view THEN [i \in 1..s.len |-> m[s.off + i]] ELSE s.val

\* append(s, vals...): in place when s is a view whose capacity (the rest of
\* the backing array) holds the result, a fresh array otherwise.  Appending
\* nothing returns s.
GoAppend(m, s, vals) ==
    IF Len(vals) = 0 THEN [mem |-> m, s |-> s]
    ELSE IF s.view /\ s.off + s.len + Len(vals) <= CapEnd(m, s.off)
    THEN [mem |-> [i \in 1..Len(m) |->
                     IF i > s.off + s.len /\ i <= s.off + s.len + Len(vals)
                     THEN vals[i - s.off - s.len] ELSE m[i]],
          s   |-> View(s.off, s.len + Len(vals))]
    ELSE [mem |-> m, s |-> Own(Val(m, s) \o vals)]

\* slices.Index(xs, x): 0-based index of the first x, -1 when absent
SlicesIndex(xs, x) ==
    IF \E i \in 1..Len(xs) : xs[i] = x
    THEN (CHOOSE i \in 1..Len(xs) : xs[i] = x /\ \A j \in 1..(i - 1) : xs[j] # x) - 1
    ELSE -1

\* strconv.Itoa on the small indexes that occur
Itoa(i) == <<"0", "1", "2", "3", "4", "5", "6", "7", "8", "9">>[i + 1]

\* the closure matches(prefix, a, b) of find / Find
matches(prefix, a, b) == (prefix \o a) = b

\* ------------------------------------------------------------ the driver
\* One declaration of the driver, in the terms both revisions share: a switch
\* with its short and long alias and its options, or a positional with its
\* name.  nargs/n are the Nargs and N fields as the driver writes them: an
\* exact count is Nargs "" with N set, a quantifier is Nargs set with N left 0.
\* enum, requires and excludes are <<>> when the driver leaves them nil.
SwitchDecl(short, long, ar, dup, req, enum, requires, excludes) ==
    [kind |-> "switch", short |-> short, long |-> long, name |-> "",
     nargs |-> ar[1], n |-> ar[2], dup |-> dup, req |-> req, enum |-> enum,
     requires |-> requires, excludes |-> excludes]

PosDecl(name, enum) ==
    [kind |-> "positional", short |-> "", long |-> "", name |-> name,
     nargs |-> "", n |-> 0, dup |-> FALSE, req |-> FALSE, enum |-> enum,
     requires |-> <<>>, excludes |-> <<>>]

Exact(n) == <<"", n>>
Quant(q) == <<q, 0>>
Arities == {Exact(0), Exact(1), Exact(2), Quant("?"), Quant("*"), Quant("+")}

\* switch a: -a / --aa
A(ar, dup, req, enum, requires, excludes) ==
    SwitchDecl("a", "aa", ar, dup, req, enum, requires, excludes)
APlain(ar) == A(ar, FALSE, FALSE, <<>>, <<>>, <<>>)
\* switch bb: --bb only
B(ar) == SwitchDecl("", "bb", ar, FALSE, FALSE, <<>>, <<>>, <<>>)
X == PosDecl("X", <<>>)
Y == PosDecl("Y", <<>>)
XEnum == PosDecl("X", <<"x">>)
\* a positional that takes the resolved name of switch a
AA == PosDecl("aa", <<>>)

\* The driver programs explored: each is the sequence of declarations made
\* between the constructor and Parse.
Scripts ==
    {<<>>}
    \cup {<<APlain(ar)>> : ar \in Arities}
    \cup {<<APlain(ar), B(br)>> : ar \in Arities, br \in {Exact(0), Quant("*")}}
    \cup {<<A(ar, TRUE, FALSE, <<>>, <<>>, <<>>)>> : ar \in {Exact(1), Quant("*"), Quant("+")}}
    \cup {<<A(ar, TRUE, FALSE, <<>>, <<>>, <<>>), B(Quant("*"))>> :
            ar \in {Exact(1), Quant("*"), Quant("+")}}
    \cup {<<A(Quant("*"), FALSE, TRUE, <<>>, <<>>, <<>>)>>,
          <<A(Quant("*"), FALSE, TRUE, <<>>, <<>>, <<>>), B(Quant("*"))>>}
    \cup {<<A(ar, FALSE, FALSE, <<"x">>, <<>>, <<>>)>> : ar \in Arities}
    \cup {<<A(ar, FALSE, FALSE, <<"x">>, <<>>, <<>>), B(Quant("*"))>> : ar \in Arities}
    \cup {<<A(Quant("*"), FALSE, FALSE, <<>>, <<"bb">>, <<>>)>>,
          <<A(Quant("*"), FALSE, FALSE, <<>>, <<>>, <<"bb">>)>>,
          <<A(Quant("*"), FALSE, FALSE, <<>>, <<"bb">>, <<>>), B(Quant("*"))>>,
          <<A(Quant("*"), FALSE, FALSE, <<>>, <<>>, <<"bb">>), B(Quant("*"))>>}
    \cup {s \o p : s \in {<<>>, <<APlain(Quant("*"))>>, <<APlain(Exact(1))>>,
                          <<APlain(Exact(1)), B(Quant("*"))>>},
                   p \in {<<X>>, <<X, Y>>}}
    \cup {<<XEnum>>, <<APlain(Quant("*")), XEnum>>}
    \* a name declared twice: switch then switch, positional then positional,
    \* switch then positional, positional then switch
    \cup {<<APlain(Quant("*")), APlain(Exact(1))>>, <<X, XEnum>>,
          <<APlain(Quant("*")), AA>>, <<AA, APlain(Quant("*"))>>}

\* The driver programs of a process that parses twice.
Scripts2 ==
    {<<APlain(Quant("*"))>>,
     <<A(Quant("*"), TRUE, FALSE, <<>>, <<>>, <<>>)>>,
     <<APlain(Quant("*")), X>>}

\* Args and Spec of test/0 in src/src/argparser.erl: switches -a, -b, -c of
\* exact arity 2, 0, 1.
TestArgs == <<"-a", "1", "2", "-b", "d", "-c", "a", "-1">>
TestScript == <<SwitchDecl("a", "", Exact(2), FALSE, FALSE, <<>>, <<>>, <<>>),
                SwitchDecl("b", "", Exact(0), FALSE, FALSE, <<>>, <<>>, <<>>),
                SwitchDecl("c", "", Exact(1), FALSE, FALSE, <<>>, <<>>, <<>>)>>

\* The stream and the declarations of main in src/unnamed/part_000.
MainArgv == <<"11", "-A", "1", "2", "3", "--a-switch", "4", "5", "6", "-B", "a", "b",
              "--", "1", "2", "3">>
MainScript == <<SwitchDecl("A", "a-switch", Quant("+"), TRUE, FALSE, <<>>, <<>>, <<>>),
                SwitchDecl("B", "b-switch", Exact(1), FALSE, FALSE, <<>>, <<>>, <<>>),
                PosDecl("X", <<>>)>>

VARIABLES
    osArgs,             \* the token stream the driver passes to the constructor
    script,             \* the driver's program: its declarations, in order
    ip,                 \* how many of them it has made
    later,              \* the streams and programs it parses after this one
    nth,                \* which parse of the process this is: 1, 2, ...
    pc,                 \* the driver's position: start, declare, ..., done, failed
    rev,                \* the revision this process runs: none, part_000, parser_go
    err,                \* the kind of the panic that ended the process, or NoErr
    mem,                \* the backing array of the argv the constructor was given
    Argv,               \* parser.Argv: the slice before the terminator
    \* ---- package-level variables of src/unnamed/part_000
    heap,               \* the Switch objects allocated, in allocation order
    switches,           \* map name -> *Switch (an index into heap)
    positionals,        \* map name -> *Positional (an index into positionals_slices)
    positionals_slices, \* []*Positional in declaration order
    parsed_slices,      \* []*switch_ref: the occurrences
    head_argv,
    tail_argv,
    \* ---- package-level variables of src/parser.go
    argumentsMap,       \* map name -> *argument (an index into argumentsSlice)
    keywordsMap,        \* map name -> *keyword
    argumentsSlice,     \* []*argument in declaration order
    keywordsSlice,      \* []*keyword: the occurrences
    parsedMap,          \* map name -> []string
    checkDups,          \* the names whose checkDups entry is true
    headArgv,
    tailArgv,
    allArgv,
    \* ---- src/src/argparser.erl
    result              \* what test/0 evaluates to: {Parsed, Positional} or an error

vars == <<osArgs, script, ip, later, nth, pc, rev, err, mem, Argv, heap, switches, positionals,
          positionals_slices, parsed_slices, head_argv, tail_argv, argumentsMap,
          keywordsMap, argumentsSlice, keywordsSlice, parsedMap, checkDups, headArgv,
          tailArgv, allArgv, result>>

\* the variables of each revision, left alone by the other
vars_part_000 == <<heap, switches, positionals, positionals_slices, parsed_slices,
                   head_argv, tail_argv>>
vars_parser_go == <<argumentsMap, keywordsMap, argumentsSlice, keywordsSlice, parsedMap,
                    checkDups, headArgv, tailArgv, allArgv>>
vars_erlang == <<result>>

\* nothing evaluated yet
ErlFresh == [error |-> NoErr, switch |-> "", required |-> 0, given |-> 0,
             parsed |-> <<>>, positional |-> <<>>]

\* a process that has run nothing yet: the package-level variables as declared
Fresh ==
    /\ ip = 0
    /\ nth = 1
    /\ pc = "start"
    /\ rev = "none"
    /\ err = NoErr
    /\ mem = <<>>
    /\ Argv = Own(<<>>)
    /\ heap = <<>>
    /\ switches = <<>>
    /\ positionals = <<>>
    /\ positionals_slices = <<>>
    /\ parsed_slices = <<>>
    /\ head_argv = Own(<<>>)
    /\ tail_argv = Own(<<>>)
    /\ argumentsMap = <<>>
    /\ keywordsMap = <<>>
    /\ argumentsSlice = <<>>
    /\ keywordsSlice = <<>>
    /\ parsedMap = <<>>
    /\ checkDups = {}
    /\ headArgv = Own(<<>>)
    /\ tailArgv = Own(<<>>)
    /\ allArgv = Own(<<>>)
    /\ result = ErlFresh

\* One parse of any stream under any program, or two parses one after the
\* other of two short streams, or the parse main makes, or the one test/0
\* makes.
Init ==
    /\ Fresh
    /\ \/ /\ osArgs \in Streams
          /\ script \in Scripts
          /\ later = <<>>
       \/ /\ osArgs \in Streams2
          /\ script \in Scripts2
          /\ later \in {<<[osArgs |-> a, script |-> sc]>> : a \in Streams2, sc \in Scripts2}
       \/ /\ osArgs = MainArgv
          /\ script = MainScript
          /\ later = <<>>
       \/ /\ osArgs = TestArgs
          /\ script = TestScript
          /\ later = <<>>

\* The driver turns to its next stream: it is about to construct a new parser
\* in the same process, over the package-level variables as the last parse
\* left them.
Again ==
    /\ pc = "done"
    /\ later # <<>>
    /\ osArgs' = Head(later).osArgs
    /\ script' = Head(later).script
    /\ later' = Tail(later)
    /\ nth' = nth + 1
    /\ ip' = 0
    /\ pc' = "start"
    /\ UNCHANGED <<rev, err, mem, Argv, vars_part_000, vars_parser_go, vars_erlang>>

\* ===================================================== src/unnamed/part_000
\* A Switch value as the driver writes it (&Switch{...}); Name, Names and
\* Found are filled in by Parser.Switch and find.  Enum, Requires and Excludes
\* are <<>> for nil.  N is -1 once Nargs is a quantifier.
SwitchLit(nargs, n, dup, req, enum, requires, excludes) ==
    [Name |-> "", Names |-> <<>>, Value |-> Own(<<>>), Nargs |-> nargs, N |-> n,
     Enum |-> enum, Requires |-> requires, Excludes |-> excludes,
     AllowDuplicates |-> dup, Required |-> req, Found |-> FALSE]

\* A Positional value as the driver writes it (&Positional{...}).
PositionalLit(enum) == [Name |-> "", Value |-> "", Enum |-> enum]

\* nargs_re = ^[+*?]+$ on the strings of at most two characters
nargs_re(s) ==
    s \in {"+", "*", "?", "++", "+*", "+?", "*+", "**", "*?", "?+", "?*", "??"}

\* The scanning loop of Switch.find from 0-based index i on: pos is the list
\* of matched positions so far.  The required check sits inside the loop.
RECURSIVE find_loop(_, _, _, _)
find_loop(argv, S, i, pos) ==
    IF i >= Len(argv) THEN [err |-> NoErr, pos |-> pos]
    ELSE LET v == argv[i + 1]
             short_matched == S.Names[1] # "" /\ matches("-", S.Names[1], v)
             pos1 == IF short_matched THEN Append(pos, i) ELSE pos
             pos2 == IF ~short_matched /\ matches("--", S.Names[2], v)
                     THEN Append(pos1, i) ELSE pos1
         IN  IF Len(pos2) = 0 /\ S.Required
             THEN [err |-> ErrNoArgs, pos |-> pos2]
             ELSE find_loop(argv, S, i + 1, pos2)

\* Switch.find: the positions of S in argv, or the error it panics with.
find(argv, S) ==
    LET r == find_loop(argv, S, 0, <<>>)
    IN  IF r.err # NoErr THEN r
        ELSE IF Len(r.pos) > 1 /\ ~S.AllowDuplicates
        THEN [err |-> ErrDuplicate, pos |-> r.pos]
        ELSE r

\* the switch_ref records find appends to parsed_slices for Switch object id
switch_refs(id, pos) == [i \in 1..Len(pos) |-> [ref |-> id, pos |-> pos[i], args |-> Own(<<>>)]]

\* The help switch NewParser declares.
HelpNames == <<"h", "help">>
HelpSwitch == SwitchLit("", 0, FALSE, FALSE, <<>>, <<>>, <<>>)

\* Parser.Switch(names, opts), find included: the package state after the
\* call, with err set when it panics.
SwitchCall(g, names, opts) ==
    LET names_l == Len(names)
        names2 == IF names_l = 1 THEN Append(names, "") ELSE names
    IN  IF names_l = 0 \/ (names2[1] = "" /\ names2[2] = "")
        THEN [g EXCEPT !.err = ErrMissingName]
        ELSE
        LET name == IF names2[2] # "" THEN names2[2] ELSE names2[1]
        IN  IF \E i \in 1..Len(names2) : names2[i] \in DOMAIN g.positionals
            THEN [g EXCEPT !.err = ErrNameConflict]
            ELSE IF opts.Nargs # "" /\ ~nargs_re(opts.Nargs)
            THEN [g EXCEPT !.err = ErrInvalidNargs]
            ELSE
            LET S == [opts EXCEPT !.Name = name, !.Names = names2,
                                  !.N = IF opts.Nargs # "" THEN -1 ELSE @]
                id == Len(g.heap) + 1
                r == find(Val(g.mem, g.Argv), S)
                g1 == [g EXCEPT !.switches = (name :> id) @@ g.switches]
            IN  IF r.err # NoErr
                THEN [g1 EXCEPT !.heap = Append(g.heap, S), !.err = r.err]
                ELSE [g1 EXCEPT !.heap = Append(g.heap, [S EXCEPT !.Found = TRUE]),
                                !.parsed_slices = g.parsed_slices \o switch_refs(id, r.pos)]

\* The package-level state as one record, and its assignment back.
G == [err |-> err, mem |-> mem, Argv |-> Argv, heap |-> heap, switches |-> switches,
      positionals |-> positionals, positionals_slices |-> positionals_slices,
      parsed_slices |-> parsed_slices, head_argv |-> head_argv, tail_argv |-> tail_argv]

SetG(g, ok) ==
    /\ err' = g.err
    /\ pc' = IF g.err # NoErr THEN "failed" ELSE ok
    /\ mem' = g.mem
    /\ Argv' = g.Argv
    /\ heap' = g.heap
    /\ switches' = g.switches
    /\ positionals' = g.positionals
    /\ positionals_slices' = g.positionals_slices
    /\ parsed_slices' = g.parsed_slices
    /\ head_argv' = g.head_argv
    /\ tail_argv' = g.tail_argv
    /\ UNCHANGED <<vars_parser_go, vars_erlang>>

\* The package state once n cells have been put in front of memory: the
\* slices the package-level variables and the Switch objects still hold keep
\* pointing at their old arrays.
MovedG(g, n) ==
    [g EXCEPT !.head_argv = Rebase(@, n),
              !.tail_argv = Rebase(@, n),
              !.heap = [i \in 1..Len(@) |-> [@[i] EXCEPT !.Value = Rebase(@, n)]],
              !.parsed_slices = [i \in 1..Len(@) |-> [@[i] EXCEPT !.args = Rebase(@, n)]]]

\* NewParser without the cut at the terminator: Argv keeps the whole stream,
\* so the scan reads the tokens after the first "--" too.
NewParserCall_uncut(g, argv) ==
    LET double_dash == SlicesIndex(argv, "--")
        g0 == [MovedG(g, Len(argv) + 1) EXCEPT !.mem = Alloc(g.mem, argv)]
        g1 == IF double_dash # -1
              THEN [g0 EXCEPT !.tail_argv = View(double_dash + 1, Len(argv) - double_dash - 1),
                              !.Argv = View(0, Len(argv))]
              ELSE [g0 EXCEPT !.Argv = View(0, Len(argv))]
    IN  SwitchCall(g1, HelpNames, HelpSwitch)

\* NewParser(argv, false): split at the first "--", then declare the help
\* switch.  The argv literal's array is a new backing array.
NewParserCall(g, argv) ==
    LET double_dash == SlicesIndex(argv, "--")
        g0 == [MovedG(g, Len(argv) + 1) EXCEPT !.mem = Alloc(g.mem, argv)]
        g1 == IF double_dash # -1
              THEN [g0 EXCEPT !.tail_argv = View(double_dash + 1, Len(argv) - double_dash - 1),
                              !.Argv = View(0, double_dash)]
              ELSE [g0 EXCEPT !.Argv = View(0, Len(argv))]
    IN  SwitchCall(g1, HelpNames, HelpSwitch)

NewParser ==
    /\ pc = "start" /\ rev \in {"none", "part_000"}
    /\ SetG(NewParserCall(G, osArgs), "declare")
    /\ rev' = "part_000"
    /\ UNCHANGED <<osArgs, script, ip, later, nth>>

\* parser.Switch(Names{...}, &Switch{...}) for the driver's next declaration
Switch ==
    /\ pc = "declare" /\ rev = "part_000"
    /\ ip < Len(script) /\ script[ip + 1].kind = "switch"
    /\ LET d == script[ip + 1]
           names == IF d.long = "" THEN <<d.short>> ELSE <<d.short, d.long>>
       IN  SetG(SwitchCall(G, names, SwitchLit(d.nargs, d.n, d.dup, d.req, d.enum,
                                               d.requires, d.excludes)), "declare")
    /\ ip' = ip + 1
    /\ UNCHANGED <<rev, osArgs, script, later, nth>>

\* Parser.Positional(name, opts)
PositionalCall(g, name, opts) ==
    IF name \in DOMAIN g.switches
    THEN [g EXCEPT !.err = ErrNameConflict]
    ELSE [g EXCEPT !.positionals_slices = Append(@, [opts EXCEPT !.Name = name]),
                   !.positionals = (name :> (Len(g.positionals_slices) + 1)) @@ @]

Positional ==
    /\ pc = "declare" /\ rev = "part_000"
    /\ ip < Len(script) /\ script[ip + 1].kind = "positional"
    /\ LET d == script[ip + 1]
       IN  SetG(PositionalCall(G, d.name, PositionalLit(d.enum)), "declare")
    /\ ip' = ip + 1
    /\ UNCHANGED <<rev, osArgs, script, later, nth>>

\* ---- Parser.extract
\* the values of a Go map
Range(f) == {f[k] : k \in DOMAIN f}

\* slices.SortFunc(parsed_slices, by pos): every order the sort may leave.  The
\* comparator never answers "equal", so occurrences at one position may end
\* in either order.
SortedByPos(refs) ==
    {[i \in 1..Len(refs) |-> refs[p[i]]] : p \in
        {q \in Permutations(1..Len(refs)) :
            \A i \in 1..(Len(refs) - 1) : refs[q[i]].pos <= refs[q[i + 1]].pos}}

\* the closure validate_n of extract, on a Switch whose Value holds `gotten`
\* tokens: the error it panics with, or NoErr
validate_n(S, gotten) ==
    IF (S.N = 0 \/ S.Nargs = "?" \/ S.Nargs = "*") /\ gotten = 0 THEN NoErr
    ELSE IF S.N # -1
    THEN IF S.N > gotten THEN ErrLessArgs
         ELSE IF S.N < gotten THEN ErrExcessArgs
         ELSE NoErr
    ELSE IF S.Nargs = "+" /\ gotten = 0 THEN ErrLessArgs
    ELSE IF S.Nargs = "?" /\ gotten > 1 THEN ErrExcessArgs
    ELSE NoErr

\* extract_spans where a later occurrence's span replaces the Value
RECURSIVE extract_spans_replacing(_, _, _)
extract_spans_replacing(g, ps, i) ==
    IF i >= Len(ps) THEN g
    ELSE LET args == View(ps[i].pos + 1, ps[i + 1].pos - ps[i].pos - 1)
         IN  extract_spans_replacing([g EXCEPT !.heap[ps[i].ref].Value = args,
                                               !.parsed_slices[i].args = args],
                                     ps, i + 1)

\* the two loops over i < parsed_slices_l-1, from 1-based index i on: each
\* occurrence but the last takes argv[current.pos+1 : next.pos] and appends it
\* to its switch's Value
RECURSIVE extract_spans(_, _, _)
extract_spans(g, ps, i) ==
    IF i >= Len(ps) THEN g
    ELSE LET args == View(ps[i].pos + 1, ps[i + 1].pos - ps[i].pos - 1)
             r == GoAppend(g.mem, g.heap[ps[i].ref].Value, Val(g.mem, args))
         IN  extract_spans([g EXCEPT !.mem = r.mem, !.heap[ps[i].ref].Value = r.s,
                                     !.parsed_slices[i].args = args],
                           ps, i + 1)

\* the generated positionals: parser.Positional(strconv.Itoa(i), &Positional{})
\* for i from pos_l below argv_l
RECURSIVE extract_extras(_, _, _)
extract_extras(g, i, argv_l) ==
    IF i >= argv_l \/ g.err # NoErr THEN g
    ELSE extract_extras(PositionalCall(g, Itoa(i), PositionalLit(<<>>)), i + 1, argv_l)

\* extract from the reconciliation of the last occurrence on (lines 304-355)
extract_last(g, ps, head0, last_args0) ==
    LET last == ps[Len(ps)]
        L == g.heap[last.ref]
        l == g.Argv.len
        last_gotten == last_args0.len
        g1 == [g EXCEPT !.heap[last.ref].Value = last_args0]
        exact == L.N # -1
        \* the else branch of the exact count: the slice, the new tail, the Value
        tl == GoAppend(g1.mem, View(last.pos + last_gotten, l - last.pos - last_gotten),
                       Val(g1.mem, g1.tail_argv))
        g2 == IF exact
              THEN [g1 EXCEPT !.mem = tl.mem, !.tail_argv = tl.s,
                              !.heap[last.ref].Value = View(last.pos + 1, last_gotten - 1)]
              ELSE g1
        hd == GoAppend(g2.mem, head0, Val(g2.mem, g2.tail_argv))
        g3 == [g2 EXCEPT !.mem = hd.mem, !.head_argv = hd.s]
        argv_l == hd.s.len
        pos_l == Len(g.positionals_slices)
        g4 == extract_extras(g3, pos_l, argv_l)
        pool == Val(g4.mem, g4.head_argv)
    IN  IF exact /\ last_gotten = 0 /\ L.N # 0 THEN [g1 EXCEPT !.err = ErrLessArgs]
        ELSE IF exact /\ L.N > last_gotten THEN [g1 EXCEPT !.err = ErrLessArgs]
        \* argv[last.pos+1 : last.pos+last_gotten] with nothing gotten: low > high
        ELSE IF exact /\ last_gotten = 0 THEN [g1 EXCEPT !.err = RuntimePanic]
        \* argv[last.pos+last_gotten:] beyond the length of argv
        ELSE IF exact /\ last.pos + last_gotten > l THEN [g1 EXCEPT !.err = RuntimePanic]
        ELSE IF L.Nargs = "+" /\ last_gotten = 0 THEN [g2 EXCEPT !.err = ErrLessArgs]
        ELSE IF L.Nargs = "*" /\ last_gotten > 1 THEN [g2 EXCEPT !.err = ErrExcessArgs]
        ELSE IF ~(pos_l < argv_l) THEN [g3 EXCEPT !.err = ErrLessPositionalArgs]
        ELSE IF g4.err # NoErr THEN g4
        ELSE [g4 EXCEPT !.positionals_slices =
                [i \in 1..Len(@) |-> [@[i] EXCEPT !.Value = pool[i]]]]

\* Parser.extract: every state it may leave.  Ranging over the switches map
\* visits the switches in any order, so any one that fails validate_n may be
\* the one that panics.
extract(g) ==
    IF Len(g.parsed_slices) = 0
    THEN {[g EXCEPT !.err = RuntimePanic]}      \* parsed_slices[0] of an empty slice
    ELSE UNION {
        LET first == ps[1]
            last == ps[Len(ps)]
            l == g.Argv.len
            head0 == IF first.pos # 0 THEN View(0, first.pos) ELSE g.head_argv
            last_args0 == IF last.pos # l - 1 THEN View(last.pos + 1, l - last.pos - 1)
                          ELSE last.args
            g0 == [g EXCEPT !.parsed_slices = [ps EXCEPT ![Len(ps)].args = last_args0]]
            cap == CapEnd(g.mem, g.Argv.off) - g.Argv.off
        IN  \* argv[:first.pos] beyond the capacity of argv, argv[last.pos+1:]
            \* beyond its length: a position an earlier parse recorded
            IF (first.pos # 0 /\ first.pos > cap) \/ (last.pos # l - 1 /\ last.pos + 1 > l)
            THEN {[g EXCEPT !.err = RuntimePanic]}
            \* argv[current.pos+1 : next.pos] of two occurrences at one position,
            \* or beyond the capacity of argv
            ELSE IF \E i \in 1..(Len(ps) - 1) :
                       ps[i].pos + 1 > ps[i + 1].pos \/ ps[i + 1].pos > cap
            THEN {[g0 EXCEPT !.err = RuntimePanic]}
            ELSE
            LET g1 == [extract_spans(g0, ps, 1) EXCEPT !.head_argv = head0]
                failing == {id \in Range(g1.switches) :
                              /\ g1.heap[id].Found
                              /\ id # last.ref
                              /\ validate_n(g1.heap[id], g1.heap[id].Value.len) # NoErr}
            IN  IF failing # {}
                THEN {[g1 EXCEPT !.err = validate_n(g1.heap[id], g1.heap[id].Value.len)] :
                        id \in failing}
                ELSE {extract_last(g1, ps, head0, last_args0)}
        : ps \in SortedByPos(g.parsed_slices)}

\* ---- Parser.process_switches: the error the visit of Switch S panics with
process_switch(g, S) ==
    LET vals == Val(g.mem, S.Value)
    IN  IF \E i \in 1..Len(S.Excludes) : S.Excludes[i] \in DOMAIN g.switches
        THEN ErrUnallowedDeps
        ELSE IF \E i \in 1..Len(S.Requires) : S.Requires[i] \notin DOMAIN g.switches
        THEN ErrMissingDeps
        ELSE IF S.Enum # <<>> /\ \E i \in 1..Len(vals) : SlicesIndex(S.Enum, vals[i]) = -1
        THEN ErrInvalidChoice
        ELSE NoErr

\* Parser.process_switches: any switch whose visit panics may be visited first
process_switches(g) ==
    LET failing == {id \in Range(g.switches) : process_switch(g, g.heap[id]) # NoErr}
    IN  IF failing = {} THEN {g}
        ELSE {[g EXCEPT !.err = process_switch(g, g.heap[id])] : id \in failing}

\* Parser.process_positional: positionals_slices is visited in order
process_positional(g) ==
    LET bad == {i \in 1..Len(g.positionals_slices) :
                  LET v == g.positionals_slices[i]
                  IN  v.Enum # <<>> /\ SlicesIndex(v.Enum, v.Value) = -1}
    IN  IF bad = {} THEN g ELSE [g EXCEPT !.err = ErrInvalidChoice]

\* Parser.process: extract, process_switches, process_positional
process(g) ==
    UNION {IF g1.err # NoErr THEN {g1}
           ELSE {IF g2.err # NoErr THEN g2 ELSE process_positional(g2) :
                   g2 \in process_switches(g1)}
           : g1 \in extract(g)}

\* Parser.to_map: the bindings ParseMap returns
to_map(g) ==
    [name \in DOMAIN g.switches \cup DOMAIN g.positionals |->
        IF name \in DOMAIN g.positionals
        THEN <<g.positionals_slices[g.positionals[name]].Value>>
        ELSE Val(g.mem, g.heap[g.switches[name]].Value)]

\* parser.ParseMap(), once the driver has made its declarations
ParseMap ==
    /\ pc = "declare" /\ rev = "part_000"
    /\ ip = Len(script)
    /\ \E g \in process(G) : SetG(g, "done")
    /\ UNCHANGED <<rev, osArgs, script, ip, later, nth>>

\* ========================================================== src/parser.go
\* An Option value as the driver writes it (&Option{...}); Name, ShortName and
\* LongName are filled in by Keyword and Argument.
OptionLit(nargs, n, dup, req, enum, requires, excludes) ==
    [Name |-> "", ShortName |-> "", LongName |-> "", Nargs |-> nargs, N |-> n,
     Requires |-> requires, Excludes |-> excludes, Required |-> req, Enum |-> enum,
     AllowDuplicates |-> dup]

K == [err |-> err, mem |-> mem, Argv |-> Argv, argumentsMap |-> argumentsMap,
      keywordsMap |-> keywordsMap, argumentsSlice |-> argumentsSlice,
      keywordsSlice |-> keywordsSlice, parsedMap |-> parsedMap, checkDups |-> checkDups,
      headArgv |-> headArgv, tailArgv |-> tailArgv, allArgv |-> allArgv]

SetK(k, ok) ==
    /\ err' = k.err
    /\ pc' = IF k.err # NoErr THEN "failed" ELSE ok
    /\ mem' = k.mem
    /\ Argv' = k.Argv
    /\ argumentsMap' = k.argumentsMap
    /\ keywordsMap' = k.keywordsMap
    /\ argumentsSlice' = k.argumentsSlice
    /\ keywordsSlice' = k.keywordsSlice
    /\ parsedMap' = k.parsedMap
    /\ checkDups' = k.checkDups
    /\ headArgv' = k.headArgv
    /\ tailArgv' = k.tailArgv
    /\ allArgv' = k.allArgv
    /\ UNCHANGED <<vars_part_000, vars_erlang>>

\* Parser.Keyword(short, long, opts)
KeywordCall(k, short, long, opts) ==
    IF short = "" /\ long = "" THEN [k EXCEPT !.err = ErrMissingName]
    ELSE
    LET o1 == IF long # "" THEN [opts EXCEPT !.LongName = long, !.Name = long] ELSE opts
        o2 == IF short # ""
              THEN [o1 EXCEPT !.ShortName = short, !.Name = IF o1.Name = "" THEN short ELSE @]
              ELSE o1
    IN  IF o2.Name \in DOMAIN k.argumentsMap THEN [k EXCEPT !.err = ErrNameConflict]
        ELSE IF o2.Name \in DOMAIN k.keywordsMap THEN [k EXCEPT !.err = ErrNameConflict]
        ELSE IF o2.Nargs # "" /\ ~nargs_re(o2.Nargs) THEN [k EXCEPT !.err = ErrInvalidNargs]
        ELSE LET o3 == IF o2.Nargs # "" THEN [o2 EXCEPT !.N = -1] ELSE o2
             IN  [k EXCEPT !.keywordsMap =
                    (o3.Name :> [name |-> o3.Name, pos |-> -1, opts |-> o3]) @@ @]

\* Parser.Argument(name, opts)
ArgumentCall(k, name, opts) ==
    IF name = "" THEN [k EXCEPT !.err = ErrMissingName]
    ELSE IF name \in DOMAIN k.argumentsMap THEN [k EXCEPT !.err = ErrNameConflict]
    ELSE IF name \in DOMAIN k.keywordsMap THEN [k EXCEPT !.err = ErrNameConflict]
    ELSE [k EXCEPT !.argumentsSlice =
                     Append(@, [name |-> name, value |-> "", opts |-> [opts EXCEPT !.Name = name]]),
                   !.argumentsMap = (name :> (Len(k.argumentsSlice) + 1)) @@ @]

\* The package state once n cells have been put in front of memory.
MovedK(k, n) ==
    [k EXCEPT !.headArgv = Rebase(@, n),
              !.tailArgv = Rebase(@, n),
              !.allArgv = Rebase(@, n),
              !.parsedMap = [name \in DOMAIN @ |-> Rebase(@[name], n)]]

\* New(argv): split at the first "--", then declare the help keyword
NewCall(k, argv) ==
    LET eof == SlicesIndex(argv, "--")
        k0 == [MovedK(k, Len(argv) + 1) EXCEPT !.mem = Alloc(k.mem, argv)]
        k1 == IF eof # -1
              THEN [k0 EXCEPT !.tailArgv = View(eof + 1, Len(argv) - eof - 1),
                              !.Argv = View(0, eof)]
              ELSE [k0 EXCEPT !.Argv = View(0, Len(argv))]
    IN  KeywordCall(k1, "h", "help", OptionLit("", 0, FALSE, FALSE, <<>>, <<>>, <<>>))

New ==
    /\ pc = "start" /\ rev \in {"none", "parser_go"}
    /\ SetK(NewCall(K, osArgs), "declare")
    /\ rev' = "parser_go"
    /\ UNCHANGED <<osArgs, script, ip, later, nth>>

\* parser.Keyword(short, long, &Option{...}) for the driver's next declaration
Keyword ==
    /\ pc = "declare" /\ rev = "parser_go"
    /\ ip < Len(script) /\ script[ip + 1].kind = "switch"
    /\ LET d == script[ip + 1]
       IN  SetK(KeywordCall(K, d.short, d.long,
                            OptionLit(d.nargs, d.n, d.dup, d.req, d.enum, d.requires,
                                      d.excludes)), "declare")
    /\ ip' = ip + 1
    /\ UNCHANGED <<rev, osArgs, script, later, nth>>

\* parser.Argument(name, &Option{...}) for the driver's next declaration
Argument ==
    /\ pc = "declare" /\ rev = "parser_go"
    /\ ip < Len(script) /\ script[ip + 1].kind = "positional"
    /\ LET d == script[ip + 1]
       IN  SetK(ArgumentCall(K, d.name, OptionLit("", 0, FALSE, FALSE, d.enum, <<>>, <<>>)),
                "declare")
    /\ ip' = ip + 1
    /\ UNCHANGED <<rev, osArgs, script, later, nth>>

\* ---- Parser.Find
\* the closure find(x) from 0-based index i on: r carries keywordsSlice,
\* checkDups and the error.  Both checks sit inside the loop over argv.
RECURSIVE Find_loop(_, _, _, _)
Find_loop(argv, x, i, r) ==
    IF i >= Len(argv) THEN r
    ELSE LET v == argv[i + 1]
             opts == x.opts
             short == opts.ShortName # "" /\ matches("-", opts.ShortName, v)
             matched == short \/ matches("--", opts.LongName, v)
         IN  IF ~matched /\ opts.Required THEN [r EXCEPT !.err = ErrNoArgs]
             ELSE IF ~matched THEN Find_loop(argv, x, i + 1, r)
             ELSE LET r1 == [r EXCEPT !.ks = Append(@, [x EXCEPT !.pos = i])]
                  IN  IF opts.Name \in r.cd /\ ~opts.AllowDuplicates
                      THEN [r1 EXCEPT !.err = ErrDuplicate]
                      ELSE Find_loop(argv, x, i + 1, [r1 EXCEPT !.cd = @ \cup {opts.Name}])

\* find(v) for the keywords named in todo, one after the other
RECURSIVE Find_all(_, _, _, _)
Find_all(argv, kmap, todo, r) ==
    IF todo = {} \/ r.err # NoErr THEN r
    ELSE LET name == CHOOSE n \in todo : TRUE
         IN  Find_all(argv, kmap, todo \ {name}, Find_loop(argv, kmap[name], 0, r))

\* Parser.Find: every state it may leave.  Ranging over keywordsMap visits the
\* keywords in any order, so any keyword whose scan panics may be the first
\* to; when none does, the occurrences are sorted by position.
Find(k) ==
    LET argv == Val(k.mem, k.Argv)
        r0 == [err |-> NoErr, ks |-> k.keywordsSlice, cd |-> k.checkDups]
        failing == {name \in DOMAIN k.keywordsMap :
                      Find_loop(argv, k.keywordsMap[name], 0, r0).err # NoErr}
        all == Find_all(argv, k.keywordsMap, DOMAIN k.keywordsMap, r0)
    IN  IF failing # {}
        THEN {[k EXCEPT !.err = Find_loop(argv, k.keywordsMap[name], 0, r0).err] :
                name \in failing}
        ELSE {[k EXCEPT !.keywordsSlice = ks, !.checkDups = all.cd] :
                ks \in SortedByPos(all.ks)}

\* ---- Parser.Extract
\* the loop over i < keywordsL-1, from 1-based index i on: each occurrence but
\* the last appends argv[current.pos+1 : next.pos] to parsedMap[current.name]
RECURSIVE Extract_spans(_, _)
Extract_spans(k, i) ==
    IF i >= Len(k.keywordsSlice) THEN k
    ELSE LET current == k.keywordsSlice[i]
             next == k.keywordsSlice[i + 1]
             old == IF current.name \in DOMAIN k.parsedMap THEN k.parsedMap[current.name]
                    ELSE Own(<<>>)
             r == GoAppend(k.mem, old,
                           Val(k.mem, View(current.pos + 1, next.pos - current.pos - 1)))
         IN  Extract_spans([k EXCEPT !.mem = r.mem,
                                     !.parsedMap = (current.name :> r.s) @@ @], i + 1)

\* the loop over argumentsSlice: each argument and its index key share one
\* one-element slice holding allArgv[i]
RECURSIVE Extract_arguments(_, _)
Extract_arguments(k, i) ==
    IF i >= Len(k.argumentsSlice) THEN k
    ELSE LET res == Own(<<Val(k.mem, k.allArgv)[i + 1]>>)
         IN  Extract_arguments(
                 [k EXCEPT !.parsedMap =
                     (Itoa(i) :> res) @@ (k.argumentsSlice[i + 1].name :> res) @@ @],
                 i + 1)

\* the loop from argumentsSliceL below allArgvL: parsedMap[Itoa(i)] = {argv[i]}
RECURSIVE Extract_extras(_, _)
Extract_extras(k, i) ==
    IF i >= k.allArgv.len THEN k
    ELSE IF i >= k.Argv.len THEN [k EXCEPT !.err = RuntimePanic]   \* argv[i] out of range
    ELSE Extract_extras(
             [k EXCEPT !.parsedMap = (Itoa(i) :> Own(<<Val(k.mem, k.Argv)[i + 1]>>)) @@ @],
             i + 1)

\* Parser.Extract
Extract(k) ==
    IF Len(k.keywordsSlice) = 0
    THEN [k EXCEPT !.err = RuntimePanic]        \* keywordsSlice[0] of an empty slice
    ELSE
    LET keywordsL == Len(k.keywordsSlice)
        first == k.keywordsSlice[1]
        last == k.keywordsSlice[keywordsL]
        l == k.Argv.len
        k1 == IF first.pos # 0 THEN [k EXCEPT !.headArgv = View(0, first.pos)] ELSE k
        k2 == Extract_spans(k1, 1)
        lastArgsL == l - last.pos - 1
        lastN == last.opts.N
        lastNargs == last.opts.Nargs
        k3 == [k2 EXCEPT !.parsedMap = (last.name :> View(last.pos + 1, lastArgsL)) @@ @]
        tl == GoAppend(k3.mem, View(last.pos + lastN, l - last.pos - lastN),
                       Val(k3.mem, k3.tailArgv))
        k4 == IF lastN # -1 /\ lastArgsL > lastN
              THEN [k3 EXCEPT !.parsedMap = (last.name :> View(last.pos + 1, lastN)) @@ @,
                              !.mem = tl.mem, !.tailArgv = tl.s]
              ELSE k3
        all == GoAppend(k4.mem, k4.headArgv, Val(k4.mem, k4.tailArgv))
        k5 == [k4 EXCEPT !.mem = all.mem, !.allArgv = all.s]
    IN  \* argv[current.pos+1 : next.pos] of two occurrences at one position
        IF \E i \in 1..(keywordsL - 1) :
              k.keywordsSlice[i].pos + 1 > k.keywordsSlice[i + 1].pos
        THEN [k1 EXCEPT !.err = RuntimePanic]
        ELSE IF lastN # -1 /\ ~(lastArgsL > lastN) /\ lastN = 0 /\ lastArgsL > 0
        THEN [k3 EXCEPT !.err = ErrExcessArgs]
        ELSE IF lastN # -1 /\ ~(lastArgsL > lastN) /\ lastN # 0 /\ lastN > lastArgsL
        THEN [k3 EXCEPT !.err = ErrLessArgs]
        ELSE IF lastN = -1 /\ lastNargs = "+" /\ lastArgsL = 0
        THEN [k3 EXCEPT !.err = ErrLessArgs]
        ELSE IF lastN = -1 /\ lastNargs = "?" /\ lastArgsL > 1
        THEN [k3 EXCEPT !.err = ErrExcessArgs]
        ELSE IF k5.allArgv.len < Len(k.argumentsSlice)
        THEN [k5 EXCEPT !.err = ErrLessArgs]
        ELSE Extract_extras(Extract_arguments(k5, 0), Len(k.argumentsSlice))

\* ---- Parser.Validate
\* checkEnum(name, nameType, enum, xs): does it panic
checkEnum(enum, xs) == enum # <<>> /\ \E i \in 1..Len(xs) : SlicesIndex(enum, xs[i]) = -1

\* One iteration of the loop over parsedMap, for the entry name: "continue"
\* when the loop goes on, "return" when Validate returns from inside the loop,
\* or the error the iteration panics with.
Validate_visit(k, name) ==
    LET last == k.keywordsSlice[Len(k.keywordsSlice)]
        args == Val(k.mem, k.parsedMap[name])
        gotten == Len(args)
        isKeyword == name \in DOMAIN k.keywordsMap
        opts == k.keywordsMap[name].opts
        n == opts.N
        nargs == opts.Nargs
        argument ==
            IF name \notin DOMAIN k.argumentsMap THEN "continue"
            ELSE IF checkEnum(k.argumentsSlice[k.argumentsMap[name]].opts.Enum, args)
            THEN ErrInvalidChoice
            ELSE "continue"
    IN  IF name = last.name THEN "continue"
        ELSE IF ~isKeyword THEN argument
        ELSE IF (n = 0 \/ nargs = "?" \/ nargs = "*") /\ gotten = 0 THEN "return"
        ELSE IF n # -1
        THEN IF n > gotten THEN ErrLessArgs
             ELSE IF n < gotten THEN ErrExcessArgs
             ELSE "return"
        ELSE IF nargs = "+" /\ gotten = 0 THEN ErrLessArgs
        ELSE IF nargs = "?" /\ gotten > 1 THEN ErrExcessArgs
        ELSE IF checkEnum(opts.Enum, args) THEN ErrInvalidChoice
        ELSE argument

\* Parser.Validate: every error it may panic with, NoErr among them when it
\* may return normally.  Ranging over parsedMap visits the entries in any
\* order and no iteration changes what another one reads, so the first entry
\* that does not continue decides, and any such entry may be the first.
Validate(k) ==
    LET visits == {Validate_visit(k, name) : name \in DOMAIN k.parsedMap}
    IN  IF visits \subseteq {"continue"} THEN {NoErr}
        ELSE {IF v = "return" THEN NoErr ELSE v : v \in visits \ {"continue"}}

\* Parser.Parse: Find, Extract, Validate; parsedMap is what it returns
ParseAll(k) ==
    UNION {IF k1.err # NoErr THEN {k1}
           ELSE LET k2 == Extract(k1)
                IN  IF k2.err # NoErr THEN {k2}
                    ELSE {[k2 EXCEPT !.err = e] : e \in Validate(k2)}
           : k1 \in Find(k)}

Parse ==
    /\ pc = "declare" /\ rev = "parser_go"
    /\ ip = Len(script)
    /\ \E k \in ParseAll(K) : SetK(k, "done")
    /\ UNCHANGED <<rev, osArgs, script, ip, later, nth>>

\* ================================================= src/src/argparser.erl
\* The Erlang revision: pure functions over lists.  A list is a sequence, its
\* head first; a Spec entry {Switch, [{n, N}]} is [switch, n]; an index entry
\* {Ind, Switch} is [ind, switch]; a Parsed entry {Switch, Collected} is
\* [k, x].  An error term is a record whose error field is not NoErr.
ErlWrongNargs == "wrong_nargs"
ErlFunctionClause == "function_clause"
ErlOk(parsed, positional) ==
    [error |-> NoErr, switch |-> "", required |-> 0, given |-> 0,
     parsed |-> parsed, positional |-> positional]
lists_reverse(l) == [i \in 1..Len(l) |-> l[Len(l) + 1 - i]]
lists_enumerate(l) == [i \in 1..Len(l) |-> [ind |-> i, switch |-> l[i]]]
\* lists:keysearch / lists:keyfind on the first element: is the key there
keymember(key, l, field) == \E i \in 1..Len(l) : l[i][field] = key
keyfind(key, l, field) == l[CHOOSE i \in 1..Len(l) :
                                l[i][field] = key /\ \A j \in 1..(i - 1) : l[j][field] # key]

\* get_index/3: the enumerated tokens that are a key of Spec, in stream order
RECURSIVE get_index3(_, _, _)
get_index3(l, Spec, All) ==
    IF l = <<>> THEN lists_reverse(All)
    ELSE IF keymember(Head(l).switch, Spec, "switch")
    THEN get_index3(Tail(l), Spec, <<Head(l)>> \o All)
    ELSE get_index3(Tail(l), Spec, All)
get_index(Args, Spec) == get_index3(lists_enumerate(Args), Spec, <<>>)

\* store_switch: Value in front of what Switch has collected, or a new entry
\* at the end of Parsed
store_switch(Sw, Value, Parsed) ==
    IF keymember(Sw, Parsed, "k")
    THEN LET at == CHOOSE i \in 1..Len(Parsed) :
                      Parsed[i].k = Sw /\ \A j \in 1..(i - 1) : Parsed[j].k # Sw
         IN  [Parsed EXCEPT ![at] = [k |-> Sw, x |-> <<Value>> \o Parsed[at].x]]
    ELSE Append(Parsed, [k |-> Sw, x |-> <<Value>>])

RECURSIVE store_switch_arg(_, _, _)
store_switch_arg(Sw, Values, Parsed) ==
    IF Values = <<>> THEN Parsed
    ELSE store_switch_arg(Sw, Tail(Values), store_switch(Sw, Head(Values), Parsed))

\* slice_list(Xs, Start, End): elements Start..End, End cut down to the
\* length of Xs.  Its callers pass Start >= 1 and End >= Start - 1, for which
\* lists:seq is defined.
slice_list(Xs, Start, End) == SubSeq(Xs, Start, IF End <= Len(Xs) THEN End ELSE Len(Xs))

\* extract_args/3: each occurrence collects the tokens from its own position
\* up to the next occurrence, the switch token included; at the last
\* occurrence every collection is reversed and loses its first element.  No
\* clause matches an empty index list.
RECURSIVE extract_args3(_, _, _)
extract_args3(Args, Idx, Parsed) ==
    IF Idx = <<>> THEN [error |-> ErlFunctionClause, parsed |-> <<>>]
    ELSE IF Len(Idx) = 1
    THEN LET Remaining == slice_list(Args, Idx[1].ind, Len(Args))
             NewParsed == store_switch_arg(Idx[1].switch, Remaining, Parsed)
         IN  [error |-> NoErr,
              parsed |-> [i \in 1..Len(NewParsed) |->
                            [k |-> NewParsed[i].k, x |-> Tail(lists_reverse(NewParsed[i].x))]]]
    ELSE LET NextInd == Idx[2].ind
             NewParsed == store_switch_arg(Idx[1].switch,
                                           slice_list(Args, Idx[1].ind, NextInd - 1), Parsed)
         IN  extract_args3(Args, Tail(Idx), NewParsed)
extract_args(Args, Idx) == extract_args3(Args, Idx, <<>>)

\* get_attrib(Switch, n, Spec): the N of Switch
get_attrib(Sw, Spec) == keyfind(Sw, Spec, "switch").n

wrong_nargs_error(Sw, Required, Given) ==
    [error |-> ErlWrongNargs, switch |-> Sw, required |-> Required, given |-> Given,
     parsed |-> <<>>, positional |-> <<>>]

\* check_nargs that lets every count pass
check_nargs_lenient(Spec, Parsed) == ErlOk(<<>>, <<>>)

\* check_nargs: the error of the first entry whose N is not the number of
\* tokens it collected, or ok
RECURSIVE check_nargs(_, _)
check_nargs(Spec, Parsed) ==
    IF Parsed = <<>> THEN ErlOk(<<>>, <<>>)
    ELSE LET N == get_attrib(Head(Parsed).k, Spec)
             L == Len(Head(Parsed).x)
         IN  IF N # L THEN wrong_nargs_error(Head(Parsed).k, N, L)
             ELSE check_nargs(Spec, Tail(Parsed))

\* lists:droplast
lists_droplast(l) == SubSeq(l, 1, Len(l) - 1)

\* extract_positional(Spec, Parsed): {NewParsed, Positional} or the error
extract_positional(Spec, Parsed) ==
    LET last == Parsed[Len(Parsed)]
        Saved == last.x
        SavedLen == Len(Saved)
        Rest == lists_droplast(Parsed)
        checked == check_nargs(Spec, Rest)
        N == get_attrib(last.k, Spec)
    IN  IF checked.error # NoErr THEN checked
        ELSE IF N = 0 /\ SavedLen = 0
        THEN ErlOk(<<[k |-> last.k, x |-> <<>>]>> \o Rest, Saved)
        ELSE IF N = 0 /\ SavedLen > 0 THEN wrong_nargs_error(last.k, 0, SavedLen)
        ELSE IF N > SavedLen THEN wrong_nargs_error(last.k, N, SavedLen)
        ELSE ErlOk(<<[k |-> last.k, x |-> slice_list(Saved, 1, N)]>> \o Rest,
                   slice_list(Saved, N + 1, SavedLen))

\* the body of test/0 on Args and Spec
test_body(Args, Spec) ==
    LET extracted == extract_args(Args, get_index(Args, Spec))
    IN  IF extracted.error # NoErr
        THEN [error |-> extracted.error, switch |-> "", required |-> 0, given |-> 0,
              parsed |-> <<>>, positional |-> <<>>]
        ELSE extract_positional(Spec, extracted.parsed)

\* The Spec list of a driver program: one entry per declared switch, keyed by
\* its short form, or by its long form when it has no short one.
ErlKey(d) == IF d.short # "" THEN "-" \o d.short ELSE "--" \o d.long
ErlSpec(sc) == [i \in 1..Len(sc) |-> [switch |-> ErlKey(sc[i]), n |-> sc[i].n]]
\* the programs a Spec list can say: switches of exact arity and nothing else
ErlSayable(sc) ==
    \A i \in 1..Len(sc) :
        sc[i] = SwitchDecl(sc[i].short, sc[i].long, Exact(sc[i].n), FALSE, FALSE,
                           <<>>, <<>>, <<>>)

\* test(): extract_positional(Spec, extract_args(Args, get_index(Args, Spec)))
test ==
    /\ pc = "start" /\ rev \in {"none", "erlang"}
    /\ ErlSayable(script)
    /\ result' = test_body(osArgs, ErlSpec(script))
    /\ err' = result'.error
    /\ pc' = IF result'.error # NoErr THEN "failed" ELSE "done"
    /\ rev' = "erlang"
    /\ UNCHANGED <<osArgs, script, ip, later, nth, mem, Argv, vars_part_000, vars_parser_go>>

Next ==
    \/ NewParser \/ Switch \/ Positional \/ ParseMap
    \/ New \/ Keyword \/ Argument \/ Parse
    \/ Again
    \/ test

Spec == Init /\ [][Next]_vars

\* ====================================================== what the claims read
\* The stream before and after its first terminator.
Pre == IF SlicesIndex(osArgs, "--") = -1 THEN osArgs
       ELSE SubSeq(osArgs, 1, SlicesIndex(osArgs, "--"))
Post == IF SlicesIndex(osArgs, "--") = -1 THEN <<>>
        ELSE SubSeq(osArgs, SlicesIndex(osArgs, "--") + 2, Len(osArgs))

\* The declared switches and positionals of the driver's program.
SwitchDecls == {script[i] : i \in {j \in 1..Len(script) : script[j].kind = "switch"}}
PosDecls == SelectSeq(script, LAMBDA d : d.kind = "positional")
NameOf(d) == IF d.kind = "positional" THEN d.name
             ELSE IF d.long # "" THEN d.long ELSE d.short
\* no two declarations of the program resolve to one name
NamesDistinct ==
    \A i, j \in 1..Len(script) : i # j => NameOf(script[i]) # NameOf(script[j])
\* the tokens that are the short or the long form of switch d
Forms(d) == (IF d.short # "" THEN {"-" \o d.short} ELSE {})
            \cup (IF d.long # "" THEN {"--" \o d.long} ELSE {})
\* the 1-based positions of Pre where switch d occurs, and all occurrences
Occ(d) == {p \in 1..Len(Pre) : Pre[p] \in Forms(d)}
Occs == UNION {Occ(d) : d \in SwitchDecls}
DeclAt(p) == CHOOSE d \in SwitchDecls : p \in Occ(d)
Min(S) == CHOOSE x \in S : \A y \in S : x <= y
Max(S) == CHOOSE x \in S : \A y \in S : x >= y
\* the position of the occurrence after p, or one past the end of Pre
NextOcc(p) == IF \E q \in Occs : q > p THEN Min({q \in Occs : q > p}) ELSE Len(Pre) + 1
\* the tokens between occurrence p and the next one: its span
SpanOf(p) == SubSeq(Pre, p + 1, NextOcc(p) - 1)
\* the tokens before the first occurrence
HeadTokens == SubSeq(Pre, 1, Min(Occs) - 1)
\* the occurrences of S in ascending order
RECURSIVE Ascending(_)
Ascending(S) == IF S = {} THEN <<>> ELSE <<Min(S)>> \o Ascending(S \ {Min(S)})
\* the spans of the occurrences ps, concatenated
RECURSIVE Spans(_)
Spans(ps) == IF ps = <<>> THEN <<>> ELSE SpanOf(Head(ps)) \o Spans(Tail(ps))

\* The parse is the first one of a process that runs a Go revision: the
\* package-level variables were as declared when its parser was constructed.
FirstParse == nth = 1 /\ rev \in {"none", "part_000", "parser_go"}
\* The first parse has ended: Parse returned, or a panic ended the process.
Finished == FirstParse /\ pc \in {"done", "failed"}
Done == FirstParse /\ pc = "done"
FailedWith(e) == FirstParse /\ pc = "failed" /\ err = e
\* The values the finished parse binds to the switch or positional `name`:
\* what ParseMap's map (part_000) or Parse's parsedMap (parser.go) holds.
Bound(name) ==
    IF rev = "part_000"
    THEN IF name \in DOMAIN to_map(G) THEN to_map(G)[name] ELSE <<>>
    ELSE IF name \in DOMAIN parsedMap THEN Val(mem, parsedMap[name]) ELSE <<>>
\* The positional candidate pool extraction formed.
Pool == IF rev = "part_000" THEN Val(mem, head_argv) ELSE Val(mem, allArgv)
\* The occurrences the scanner recorded, as 0-based positions.
Recorded == IF rev = "part_000" THEN {parsed_slices[i].pos : i \in DOMAIN parsed_slices}
            ELSE {keywordsSlice[i].pos : i \in DOMAIN keywordsSlice}

\* the tokens of Pre that are no form of a declared switch
NonSwitchTokens == SelectSeq(Pre, LAMBDA t : \A d \in SwitchDecls : t \notin Forms(d))
\* the values bound to the switches of the occurrences ps, concatenated
RECURSIVE BoundAlong(_)
BoundAlong(ps) ==
    IF ps = <<>> THEN <<>> ELSE Bound(NameOf(DeclAt(Head(ps)))) \o BoundAlong(Tail(ps))
\* the pool without the head tokens in front and the post-terminator tokens
\* at the end: the reclaimed tail
Reclaimed == SubSeq(Pool, Len(HeadTokens) + 1, Len(Pool) - Len(Post))

\* C1: span completeness.  When the stream holds at least one occurrence and
\* no switch occurs twice, a finished extraction leaves the pool as head
\* tokens, reclaimed tail, post-terminator tokens, and the head tokens, the
\* values bound to each occurrence's switch and the reclaimed tail are, in
\* stream order, exactly the non-switch tokens: none lost, none twice, no
\* switch token in the pool.
C1_SpanCompleteness ==
    (/\ Done
     /\ Occs # {}
     /\ \A d \in SwitchDecls : Cardinality(Occ(d)) <= 1)
    => /\ Len(Pool) >= Len(HeadTokens) + Len(Post)
       /\ Pool = HeadTokens \o Reclaimed \o Post
       /\ HeadTokens \o BoundAlong(Ascending(Occs)) \o Reclaimed = NonSwitchTokens

\* ---- scopes: the driver programs in which nothing but the claim's own
\* subject can reject the stream
ArityErrors == {ErrLessArgs, ErrExcessArgs}
\* d is the only constrained switch: it has no enum, required flag or
\* dependency, every other declaration is a switch of arity *, and no switch
\* occurs twice
OnlyConstrained(d) ==
    /\ d.enum = <<>> /\ ~d.req /\ d.requires = <<>> /\ d.excludes = <<>>
    /\ \A i \in 1..Len(script) : script[i] # d => script[i] = B(Quant("*"))
    /\ \A e \in SwitchDecls : Cardinality(Occ(e)) <= 1
\* the single occurrence of a switch that occurs once
TheOcc(d) == CHOOSE p \in Occ(d) : TRUE

\* C2: exact arity N.  For a switch of exact arity N that occurs once, at any
\* position: with exactly N tokens in its span no arity error is raised and a
\* finished parse binds it to those N tokens; with N-1 tokens the parse fails
\* with LessArgs; with N+1 tokens before the next occurrence it fails with
\* ExcessArgs.
C2_ExactArity ==
    \A d \in SwitchDecls :
        (/\ Finished
         /\ d.nargs = ""
         /\ OnlyConstrained(d)
         /\ Cardinality(Occ(d)) = 1)
        => LET p == TheOcc(d)
               span == SpanOf(p)
           IN  /\ Len(span) = d.n =>
                     /\ err \notin ArityErrors
                     /\ Done => Bound(NameOf(d)) = span
               /\ Len(span) = d.n - 1 => FailedWith(ErrLessArgs)
               /\ (p # Max(Occs) /\ Len(span) = d.n + 1) => FailedWith(ErrExcessArgs)

\* C3: quantifier boundaries.  For a switch of quantifier arity that occurs
\* once, last or not: ? raises no arity error with 0 or 1 tokens in its span
\* and fails with ExcessArgs with 2 or more; + fails with LessArgs with 0 and
\* raises no arity error with 1 or more; * never raises an arity error.
C3_Quantifiers ==
    \A d \in SwitchDecls :
        (/\ Finished
         /\ d.nargs # ""
         /\ OnlyConstrained(d)
         /\ Cardinality(Occ(d)) = 1)
        => LET gotten == Len(SpanOf(TheOcc(d)))
           IN  /\ d.nargs = "?" =>
                     IF gotten <= 1 THEN err \notin ArityErrors
                     ELSE FailedWith(ErrExcessArgs)
               /\ d.nargs = "+" =>
                     IF gotten = 0 THEN FailedWith(ErrLessArgs)
                     ELSE err \notin ArityErrors
               /\ d.nargs = "*" => err \notin ArityErrors

\* C4: required switches.  On a stream without terminator, the process of a
\* driver that declares a required switch ends with NoArgs exactly when no
\* token of the stream is its short or its long form: wherever the switch
\* occurs NoArgs is not raised, and on the empty stream it is.
C4_Required ==
    \A d \in SwitchDecls :
        (Finished /\ d.req /\ Post = <<>> /\ Pre = osArgs)
        => (FailedWith(ErrNoArgs) <=> Occ(d) = {})

\* C5: duplicates.  Where no switch is required and no name is declared
\* twice, a switch that occurs twice or more without allow-duplicates ends
\* the process with Duplicate; with allow-duplicates,
\* a finished parse binds it to the spans of all its occurrences, in stream
\* order, the last occurrence of the stream included.
C5_Duplicates ==
    \A d \in SwitchDecls :
        /\ (/\ Finished
            /\ \A e \in SwitchDecls : ~e.req
            /\ NamesDistinct
            /\ ~d.dup
            /\ Cardinality(Occ(d)) >= 2)
              => FailedWith(ErrDuplicate)
        /\ (Done /\ d.dup /\ Cardinality(Occ(d)) >= 2)
              => Bound(NameOf(d)) = Spans(Ascending(Occ(d)))

\* C6: positionals.  Where no name is declared twice, the one declared switch has arity *, occurs once
\* and so leaves the head tokens and the post-terminator tokens as the pool of
\* length L, and P positionals without enum are declared: with L < P the
\* process ends with LessPositionalArgs; with L >= P, L = P included, it does
\* not, and a finished parse binds the i-th declared positional to the i-th
\* pool token.
C6_Positionals ==
    (/\ Finished
     /\ NamesDistinct
     /\ SwitchDecls = {APlain(Quant("*"))}
     /\ Cardinality(Occs) = 1
     /\ \A i \in 1..Len(PosDecls) : PosDecls[i].enum = <<>>)
    => LET pool == HeadTokens \o Post
           P == Len(PosDecls)
           L == Len(pool)
       IN  /\ L < P => FailedWith(ErrLessPositionalArgs)
           /\ L >= P =>
                 /\ err # ErrLessPositionalArgs
                 /\ Done =>
                       \A i \in 1..P : Bound(PosDecls[i].name) = <<pool[i]>>

\* C7: terminator transparency.  In the first parse of a process, no token at
\* or after the first `--` is ever recorded as a switch occurrence, and in a
\* finished parse the pool begins
\* with the head tokens and ends with the tokens after the first `--`,
\* unchanged and in order.
C7_Terminator ==
    /\ FirstParse => \A p \in Recorded : p < Len(Pre)
    /\ Done =>
          /\ Len(Pool) >= Len(HeadTokens) + Len(Post)
          /\ SubSeq(Pool, 1, Len(HeadTokens)) = HeadTokens
          /\ SubSeq(Pool, Len(Pool) - Len(Post) + 1, Len(Pool)) = Post

\* a finished parse of a stream whose post-terminator tokens hold a form of a
\* declared switch that also occurs before the terminator
C7_Witness ==
    /\ Done
    /\ Recorded # {}
    /\ \E i \in 1..Len(Post) : \E d \in SwitchDecls : Post[i] \in Forms(d) /\ Occ(d) # {}

\* the switch named `name` is declared and occurs in the stream
Matched(name) == \E d \in SwitchDecls : NameOf(d) = name /\ Occ(d) # {}
InSeq(x, s) == \E i \in DOMAIN s : s[i] = x
\* some matched switch excludes a matched switch / requires an unmatched one
ExcludeClash == \E d \in SwitchDecls :
                    Occ(d) # {} /\ \E i \in DOMAIN d.excludes : Matched(d.excludes[i])
RequireGap == \E d \in SwitchDecls :
                  Occ(d) # {} /\ \E i \in DOMAIN d.requires : ~Matched(d.requires[i])

\* C8: dependencies are decided on matches.  The process ends with
\* UnallowedDeps only when a matched switch excludes a switch that is matched
\* too, and no parse finishes when it does; no parse finishes when a matched
\* switch requires a switch that is not matched, declared or not, and
\* MissingDeps is raised only then.
C8_Dependencies ==
    /\ FailedWith(ErrUnallowedDeps) => ExcludeClash
    /\ ExcludeClash => ~Done
    /\ FailedWith(ErrMissingDeps) => RequireGap
    /\ RequireGap => ~Done

\* C9: the enum check is uniform.  A finished parse binds to every switch
\* that has an enum, whatever its arity and wherever it occurs, and to every
\* positional that has one, only members of the enum.
C9_Enum ==
    Done =>
        \A i \in 1..Len(script) :
            script[i].enum # <<>> =>
                \A j \in 1..Len(Bound(NameOf(script[i]))) :
                    InSeq(Bound(NameOf(script[i]))[j], script[i].enum)

\* C10: on the empty stream with no declaration, the process ends in a
\* finished parse with an empty pool and no occurrence.
C10_Empty ==
    (Finished /\ osArgs = <<>> /\ script = <<>>)
    => /\ Done
       /\ Pool = <<>>
       /\ Recorded = {}

\* declaration j takes the resolved name of an earlier declaration, and is the
\* first of the program to do so
Collides(j) == \E i \in 1..(j - 1) : NameOf(script[i]) = NameOf(script[j])
FirstCollision(j) == Collides(j) /\ \A i \in 1..(j - 1) : ~Collides(i)
\* the registry holds declaration d under its name: as a switch with d's
\* arity, or as a positional with d's enum
Registered(d) ==
    LET name == NameOf(d)
    IN  IF rev = "part_000"
        THEN IF d.kind = "switch"
             THEN /\ name \in DOMAIN switches
                  /\ name \notin DOMAIN positionals
                  /\ heap[switches[name]].Nargs = d.nargs
                  /\ d.nargs = "" => heap[switches[name]].N = d.n
             ELSE /\ name \in DOMAIN positionals
                  /\ name \notin DOMAIN switches
                  /\ positionals_slices[positionals[name]].Enum = d.enum
        ELSE IF d.kind = "switch"
             THEN /\ name \in DOMAIN keywordsMap
                  /\ name \notin DOMAIN argumentsMap
                  /\ keywordsMap[name].opts.Nargs = d.nargs
                  /\ d.nargs = "" => keywordsMap[name].opts.N = d.n
             ELSE /\ name \in DOMAIN argumentsMap
                  /\ name \notin DOMAIN keywordsMap
                  /\ argumentsSlice[argumentsMap[name]].opts.Enum = d.enum

\* C11: name collisions are rejected at registration.  Once the driver has
\* made the first declaration whose resolved name is that of an earlier
\* switch or positional, the process has ended with NameConflict and the
\* registry still holds the earlier declaration.
C11_NameConflict ==
    \A j \in 1..Len(script) :
        (FirstParse /\ ip >= j /\ FirstCollision(j))
        => /\ FailedWith(ErrNameConflict)
           /\ \A i \in 1..(j - 1) :
                 NameOf(script[i]) = NameOf(script[j]) => Registered(script[i])

\* ---- a parse alone in its process
\* the package-level variables of each revision as declared
FreshG == [err |-> NoErr, mem |-> <<>>, Argv |-> Own(<<>>), heap |-> <<>>,
           switches |-> <<>>, positionals |-> <<>>, positionals_slices |-> <<>>,
           parsed_slices |-> <<>>, head_argv |-> Own(<<>>), tail_argv |-> Own(<<>>)]
FreshK == [err |-> NoErr, mem |-> <<>>, Argv |-> Own(<<>>), argumentsMap |-> <<>>,
           keywordsMap |-> <<>>, argumentsSlice |-> <<>>, keywordsSlice |-> <<>>,
           parsedMap |-> <<>>, checkDups |-> {}, headArgv |-> Own(<<>>),
           tailArgv |-> Own(<<>>), allArgv |-> Own(<<>>)]
\* the declarations of program sc from the i-th on, until one panics
RECURSIVE DeclareG(_, _, _)
DeclareG(g, sc, i) ==
    IF i > Len(sc) \/ g.err # NoErr THEN g
    ELSE LET d == sc[i]
             names == IF d.long = "" THEN <<d.short>> ELSE <<d.short, d.long>>
         IN  DeclareG(IF d.kind = "switch"
                      THEN SwitchCall(g, names, SwitchLit(d.nargs, d.n, d.dup, d.req, d.enum,
                                                          d.requires, d.excludes))
                      ELSE PositionalCall(g, d.name, PositionalLit(d.enum)),
                      sc, i + 1)
RECURSIVE DeclareK(_, _, _)
DeclareK(k, sc, i) ==
    IF i > Len(sc) \/ k.err # NoErr THEN k
    ELSE LET d == sc[i]
         IN  DeclareK(IF d.kind = "switch"
                      THEN KeywordCall(k, d.short, d.long,
                                       OptionLit(d.nargs, d.n, d.dup, d.req, d.enum,
                                                 d.requires, d.excludes))
                      ELSE ArgumentCall(k, d.name,
                                        OptionLit("", 0, FALSE, FALSE, d.enum, <<>>, <<>>)),
                      sc, i + 1)
\* what a parse hands its caller: the error that ended it, or its bindings
OutcomeG(g) == [err |-> g.err, bindings |-> IF g.err = NoErr THEN to_map(g) ELSE <<>>]
OutcomeK(k) ==
    [err |-> k.err,
     bindings |-> IF k.err = NoErr
                  THEN [name \in DOMAIN k.parsedMap |-> Val(k.mem, k.parsedMap[name])]
                  ELSE <<>>]
\* every outcome of parsing stream under program sc in a process of its own
Alone(stream, sc) ==
    IF rev = "part_000"
    THEN LET g == DeclareG(NewParserCall(FreshG, stream), sc, 1)
         IN  IF g.err # NoErr THEN {OutcomeG(g)} ELSE {OutcomeG(g1) : g1 \in process(g)}
    ELSE LET k == DeclareK(NewCall(FreshK, stream), sc, 1)
         IN  IF k.err # NoErr THEN {OutcomeK(k)} ELSE {OutcomeK(k1) : k1 \in ParseAll(k)}
\* the outcome of the parse that has just ended
Outcome == IF rev = "part_000" THEN OutcomeG(G) ELSE OutcomeK(K)

\* C12: parse state is scoped to one parse.  When the second parse of a
\* process has ended, with a newly constructed parser and its own
\* declarations, its outcome (its error or its bindings) is an outcome of
\* parsing its stream alone in a process of its own.
C12_ScopedState ==
    (nth = 2 /\ rev \in {"part_000", "parser_go"} /\ pc \in {"done", "failed"})
    => Outcome \in Alone(osArgs, script)

\* the parse is the one main makes, and it has ended
MainEnded == osArgs = MainArgv /\ script = MainScript /\ Finished

\* C13: the scenario of main in part_000.  Parsing MainArgv with switch A / a-switch
\* (arity +, duplicates allowed), switch B / b-switch (exact arity 1) and the
\* positional X succeeds, binds a-switch to 1 2 3 4 5 6, b-switch to a and X
\* to 11, leaves the pool 11 b 1 2 3 and binds the pool tokens at indexes 1
\* to 4 to the keys "1" to "4".
C13_MainScenario ==
    (rev = "part_000" /\ MainEnded)
    => /\ Done
       /\ Bound("a-switch") = <<"1", "2", "3", "4", "5", "6">>
       /\ Bound("b-switch") = <<"a">>
       /\ Bound("X") = <<"11">>
       /\ Pool = <<"11", "b", "1", "2", "3">>
       /\ \A i \in 1..4 : Bound(Itoa(i)) = <<Pool[i + 1]>>

\* main of part_000 has run to the end of ParseMap, all six tokens of the two
\* occurrences of a-switch bound
C13_Witness ==
    rev = "part_000" /\ MainEnded /\ Done /\ Len(Bound("a-switch")) = 6

\* ---- the Erlang revision
\* test/0 has been evaluated on its own Args and Spec
TestEnded == rev = "erlang" /\ osArgs = TestArgs /\ script = TestScript
             /\ pc \in {"done", "failed"}
\* what the returned Parsed binds to the switch token key
ErlBound(key) ==
    IF keymember(key, result.parsed, "k") THEN keyfind(key, result.parsed, "k").x ELSE <<>>

\* C14 as stated: the scenario of test/0.  The extraction on TestArgs with
\* switches -a (exact arity 2), -b (exact arity 0) and -c (exact arity 1)
\* raises no error and returns -a bound to 1 2, -b to nothing, -c to a, and
\* the one leftover token -1.
C14_TestReturns ==
    TestEnded
    => /\ result.error = NoErr
       /\ ErlBound("-a") = <<"1", "2">>
       /\ ErlBound("-b") = <<>>
       /\ ErlBound("-c") = <<"a">>
       /\ result.positional = <<"-1">>

\* C14 as amended: the extraction on TestArgs raises the arity error
\* wrong_nargs for -b, which requires 0 tokens and is given 1 (the token d
\* between -b and -c), and returns no bindings.
C14_TestRaises ==
    TestEnded
    => /\ result.error = ErlWrongNargs
       /\ result.switch = "-b"
       /\ result.required = 0
       /\ result.given = 1
       /\ result.parsed = <<>>

\* test/0 has been evaluated on its own Args and Spec and has raised
C14_Witness == TestEnded /\ pc = "failed" /\ err = ErlWrongNargs

\* ---- the last occurrence
\* the evaluation of the Erlang revision has ended
ErlEnded == rev = "erlang" /\ pc \in {"done", "failed"}
\* The switch d owns the last occurrence, has an exact arity and is the only
\* thing that can reject the stream.  In a Go revision: d is the only
\* constrained switch.  In the Erlang revision, which knows one token per
\* switch and no terminator: the stream has no terminator, every occurrence
\* is the key of its switch, no switch occurs twice, and every other
\* occurrence is followed by exactly its N tokens.
LastIsExact(d) ==
    /\ Occs # {}
    /\ d = DeclAt(Max(Occs))
    /\ d.nargs = ""
    /\ \/ Finished /\ OnlyConstrained(d)
       \/ /\ ErlEnded
          /\ Post = <<>> /\ Pre = osArgs
          /\ \A q \in Occs : Pre[q] = ErlKey(DeclAt(q))
          /\ \A e \in SwitchDecls : Cardinality(Occ(e)) <= 1
          /\ \A q \in Occs \ {Max(Occs)} : Len(SpanOf(q)) = DeclAt(q).n
\* what the ended parse binds to switch d, and the tokens it reclaimed from
\* behind the last occurrence for the pool
BoundTo(d) == IF rev = "erlang" THEN ErlBound(ErlKey(d)) ELSE Bound(NameOf(d))
Leftover == IF rev = "erlang" THEN result.positional ELSE Reclaimed
Succeeded == IF rev = "erlang" THEN pc = "done" ELSE Done
\* the parse failed on the count of d: LessArgs or ExcessArgs in Go, the one
\* wrong_nargs error with the required and the given count in Erlang
FailedOnCount(d, e, given) ==
    IF rev = "erlang"
    THEN /\ pc = "failed" /\ result.error = ErlWrongNargs
         /\ result.switch = ErlKey(d) /\ result.required = d.n /\ result.given = given
    ELSE FailedWith(e)

\* C15: reconciliation of the last occurrence with an exact count.  When the
\* switch of the last occurrence has exact arity N and M tokens follow it
\* before the terminator: with N >= 1 and M > N the parse succeeds, binds the
\* switch to the first N of them and reclaims exactly the other M - N, in
\* stream order, for the pool; with M < N it fails with LessArgs; with N = 0
\* and M >= 1 it fails with ExcessArgs.
C15_LastExact ==
    \A d \in SwitchDecls :
        LastIsExact(d)
        => LET span == SpanOf(Max(Occs))
               M == Len(span)
               N == d.n
           IN  /\ (N >= 1 /\ M > N)
                  => /\ Succeeded
                     /\ BoundTo(d) = SubSeq(span, 1, N)
                     /\ Leftover = SubSeq(span, N + 1, M)
               /\ M < N => FailedOnCount(d, ErrLessArgs, M)
               /\ (N = 0 /\ M >= 1) => FailedOnCount(d, ErrExcessArgs, M)

\* ---- iteration order
\* what the claim compares of an outcome: whether the parse succeeded, and
\* the bindings when it did
Verdict(o) == [ok |-> o.err = NoErr, bindings |-> o.bindings]

\* C16: validation does not depend on the iteration order of the maps.  When
\* the first parse of a Go revision has ended, every outcome the same stream
\* and declarations can have under another iteration order agrees with it on
\* success or failure and, on success, on the bindings.
C16_OrderIndependent ==
    Finished => \A o \in Alone(osArgs, script) : Verdict(o) = Verdict(Outcome)
====
